---- MODULE Spec2Model ----
(***************************************************************************)
(* Cover letter generator: one run of main() (src/main.py) with the reader *)
(* of CoverLetterGenerator (src/cover_letter_generator.py).                *)
(*                                                                         *)
(* A Python str is a sequence of one-character strings.  The fixed texts   *)
(* of error messages, which no operator of the program looks into, are     *)
(* carried as one element each.                                            *)
(***************************************************************************)
EXTENDS Naturals, Sequences, FiniteSets

VARIABLES
    pc,              \* position of main()
    args,            \* argparse result: output, no_pdf, resume, job_description, use_knowledge_base
    disk,            \* the input files: path -> state of the file
    env,             \* what the environment lets succeed in this run
    response,        \* message content the completion call returns
    output_dir,      \* create_timestamped_directory()
    effective_resume,
    resume_text,
    job_desc_text,
    cover_letter,
    files,           \* output files written in this run: path -> artifact
    attempts,        \* renderers invoked so far, in order, with their outcome
    opens,           \* the reads done so far, in order: the input and the open performed
    stderr,          \* the message main() prints before sys.exit(1)
    exit_code

vars == <<pc, args, disk, env, response, output_dir, effective_resume, resume_text,
          job_desc_text, cover_letter, files, attempts, opens, stderr, exit_code>>

----------------------------------------------------------------------------
(* Python str operations *)

Whitespace == {" ", "\n", "\t"}

lower_char(c) ==
    CASE c = "A" -> "a" [] c = "B" -> "b" [] c = "C" -> "c" [] c = "D" -> "d"
      [] c = "E" -> "e" [] c = "F" -> "f" [] c = "G" -> "g" [] c = "H" -> "h"
      [] c = "I" -> "i" [] c = "J" -> "j" [] c = "K" -> "k" [] c = "L" -> "l"
      [] c = "M" -> "m" [] c = "N" -> "n" [] c = "O" -> "o" [] c = "P" -> "p"
      [] c = "Q" -> "q" [] c = "R" -> "r" [] c = "S" -> "s" [] c = "T" -> "t"
      [] c = "U" -> "u" [] c = "V" -> "v" [] c = "W" -> "w" [] c = "X" -> "x"
      [] c = "Y" -> "y" [] c = "Z" -> "z" [] OTHER -> c

\* s.lower()
lower(s) == [i \in 1..Len(s) |-> lower_char(s[i])]

\* s[i:] with i counted from 1
From(s, i) == SubSeq(s, i, Len(s))

\* s.startswith(p)
startswith(s, p) == Len(p) <= Len(s) /\ SubSeq(s, 1, Len(p)) = p

\* s.endswith(p)
endswith(s, p) == Len(p) <= Len(s) /\ SubSeq(s, Len(s) - Len(p) + 1, Len(s)) = p

\* s.find(p) counted from 1; 0 when p does not occur
find(s, p) ==
    LET hits == {i \in 1..(Len(s) + 1) : startswith(From(s, i), p)}
    IN  IF hits = {} THEN 0 ELSE CHOOSE i \in hits : \A j \in hits : i <= j

\* p in s
contains(s, p) == find(s, p) # 0

\* s.strip()
strip(s) ==
    LET keep == {i \in 1..Len(s) : s[i] \notin Whitespace}
    IN  IF keep = {} THEN <<>>
        ELSE LET a == CHOOSE i \in keep : \A j \in keep : i <= j
                 b == CHOOSE i \in keep : \A j \in keep : j <= i
             IN  SubSeq(s, a, b)

\* s.split(sep), sep nonempty
RECURSIVE split(_, _)
split(s, sep) ==
    LET i == find(s, sep)
    IN  IF i = 0 THEN <<s>>
        ELSE <<SubSeq(s, 1, i - 1)>> \o split(From(s, i + Len(sep)), sep)

\* s.replace(old, new), old nonempty
RECURSIVE replace(_, _, _)
replace(s, old, new) ==
    LET i == find(s, old)
    IN  IF i = 0 THEN s
        ELSE SubSeq(s, 1, i - 1) \o new \o replace(From(s, i + Len(old)), old, new)

\* os.path.join(a, b)
path_join(a, b) ==
    IF startswith(b, <<"/">>) THEN b
    ELSE IF a = <<>> \/ endswith(a, <<"/">>) THEN a \o b
    ELSE a \o <<"/">> \o b

\* "".join(parts)
RECURSIVE concat(_)
concat(parts) ==
    IF parts = <<>> THEN <<>> ELSE Head(parts) \o concat(Tail(parts))

----------------------------------------------------------------------------
(* CoverLetterGenerator: the reader *)

EXT_PDF == <<".","p","d","f">>

\* What the input files hold.  A file is a UTF-8 text file, a PDF file, or a
\* file the process may not open.
FileStates == {"absent", "text", "pdf", "locked"}

TextContent == <<"J","o","b","\n">>
PdfPages == << <<" ","C","V">>, <<"p","2","\n">> >>

\* os.path.isfile(path)
isfile(d, path) == path \in DOMAIN d /\ d[path] # "absent"

\* str(e) of what open() or the parser raises
PermissionDenied(path) == <<"[Errno 13] Permission denied: '">> \o path \o <<"'">>
DecodeError == <<"'utf-8' codec can't decode byte 0xe2 in position 10: invalid continuation byte">>
PdfReadError == <<"EOF marker not found">>

Returned(v) == [ok |-> TRUE, value |-> v]
Raised(msg) == [ok |-> FALSE, value |-> msg]

\* text += page.extract_text() + "\n" for every page, in page order
RECURSIVE extract_pages(_)
extract_pages(pages) ==
    IF pages = <<>> THEN <<>>
    ELSE Head(pages) \o <<"\n">> \o extract_pages(Tail(pages))

\* raise Exception(f"Error reading PDF file {pdf_path}: {str(e)}")
PdfErrorMessage(pdf_path, cause) == <<"Error reading PDF file ">> \o pdf_path \o <<": ">> \o cause

\* _read_pdf_file(pdf_path)
read_pdf_file(d, pdf_path) ==
    CASE d[pdf_path] = "locked" -> Raised(PdfErrorMessage(pdf_path, PermissionDenied(pdf_path)))
      [] d[pdf_path] = "text"   -> Raised(PdfErrorMessage(pdf_path, PdfReadError))
      [] OTHER                  -> Returned(strip(extract_pages(PdfPages)))

\* with open(input_data, 'r', encoding='utf-8') as f: return f.read()
read_text_file(d, path) ==
    CASE d[path] = "locked" -> Raised(PermissionDenied(path))
      [] d[path] = "pdf"    -> Raised(DecodeError)
      [] OTHER              -> Returned(TextContent)

\* raise Exception(f"Error reading file {input_data}: {str(e)}")
ErrorMessageWithoutPath(input_data, cause) == <<"Error reading file ">> \o <<": ">> \o cause
ErrorMessage(input_data, cause) == <<"Error reading file ">> \o input_data \o <<": ">> \o cause

\* input_data.lower().endswith('.pdf')
SuffixIsPdfCaseSensitive(input_data) == endswith(input_data, EXT_PDF)
SuffixIsPdf(input_data) == endswith(lower(input_data), EXT_PDF)

\* _read_file_or_text(input_data): what it returns or raises, and the open it
\* performs ("none", "pdf": _read_pdf_file, "text": the UTF-8 read)
read_file_or_text(d, input_data) ==
    IF isfile(d, input_data)
    THEN LET how == IF SuffixIsPdf(input_data) THEN "pdf" ELSE "text"
             r == IF how = "pdf"
                  THEN read_pdf_file(d, input_data)
                  ELSE read_text_file(d, input_data)
         IN  [ok |-> r.ok,
              value |-> IF r.ok THEN r.value ELSE ErrorMessage(input_data, r.value),
              how |-> how]
    ELSE [ok |-> TRUE, value |-> input_data, how |-> "none"]

----------------------------------------------------------------------------
(* main.py: the renderers *)

TITLE == <<"C","o","v","e","r"," ","L","e","t","t","e","r">>
KW_EMAIL == <<"e","m","a","i","l",":">>
KW_PHONE == <<"p","h","o","n","e",":">>
KW_LINKEDIN == <<"l","i","n","k","e","d","i","n",":">>
NL == <<"\n">>
NLNL == <<"\n","\n">>

TitleSpacer == 6
ContactSpacer == 6
BodySpacer == 12

Paragraph(text, style) == [kind |-> "Paragraph", text |-> text, style |-> style, height |-> 0]
Spacer(h) == [kind |-> "Spacer", text |-> <<>>, style |-> "", height |-> h]

\* the keyword list of the contact check
ContactKeywords == {KW_EMAIL, KW_PHONE, KW_LINKEDIN}

\* '\n' in para and any(keyword in para.lower() for keyword in [...])
is_contact(para) ==
    contains(para, NL) /\ \E keyword \in ContactKeywords : contains(lower(para), keyword)

\* for line in contact_lines: if line.strip(): Paragraph, Spacer(1, 6)
RECURSIVE contact_story(_)
contact_story(contact_lines) ==
    IF contact_lines = <<>> THEN <<>>
    ELSE (IF strip(Head(contact_lines)) # <<>>
          THEN <<Paragraph(strip(Head(contact_lines)), "CustomBody"), Spacer(ContactSpacer)>>
          ELSE <<>>)
         \o contact_story(Tail(contact_lines))

\* for para in paragraphs: ... of create_pdf_cover_letter
RECURSIVE pdf_body_keeps_blank(_)
pdf_body_keeps_blank(paragraphs) ==
    IF paragraphs = <<>> THEN <<>>
    ELSE LET para == Head(paragraphs)
         IN  (IF is_contact(para)
              THEN contact_story(split(strip(para), NL))
              ELSE <<Paragraph(strip(para), "CustomBody"), Spacer(BodySpacer)>>)
             \o pdf_body_keeps_blank(Tail(paragraphs))
RECURSIVE pdf_body(_)
pdf_body(paragraphs) ==
    IF paragraphs = <<>> THEN <<>>
    ELSE LET para == Head(paragraphs)
         IN  (IF strip(para) # <<>>
              THEN IF is_contact(para)
                   THEN contact_story(split(strip(para), NL))
                   ELSE <<Paragraph(strip(para), "CustomBody"), Spacer(BodySpacer)>>
              ELSE <<>>)
             \o pdf_body(Tail(paragraphs))

\* the story doc.build() is given
pdf_story(cover_letter_text) ==
    <<Paragraph(TITLE, "CustomTitle"), Spacer(TitleSpacer)>>
        \o pdf_body(split(cover_letter_text, NLNL))

DocxParagraph(text, alignment) == [text |-> text, alignment |-> alignment]

\* for para in paragraphs: ... of create_pages_document
RECURSIVE docx_body(_)
docx_body(paragraphs) ==
    IF paragraphs = <<>> THEN <<>>
    ELSE (IF strip(Head(paragraphs)) # <<>>
          THEN <<DocxParagraph(strip(Head(paragraphs)), "JUSTIFY")>>
          ELSE <<>>)
         \o docx_body(Tail(paragraphs))

\* the paragraphs of the document doc.save() writes
docx_paragraphs(cover_letter_text) ==
    <<DocxParagraph(TITLE, "CENTER"), DocxParagraph(<<>>, "")>>
        \o docx_body(split(cover_letter_text, NLNL))

\* An output file: what was written, by which renderer
Artifact(fmt, text, story, paragraphs) ==
    [fmt |-> fmt, text |-> text, story |-> story, paragraphs |-> paragraphs]

\* f.write(cover_letter)
TxtArtifactWithTitle(text) == Artifact("txt", TITLE \o NLNL \o text, <<>>, <<>>)
TxtArtifact(text) == Artifact("txt", text, <<>>, <<>>)
PdfArtifact(text) == Artifact("pdf", <<>>, pdf_story(text), <<>>)
DocxArtifact(text) == Artifact("docx", <<>>, <<>>, docx_paragraphs(text))

\* files with path (over)written
Write(fs, path, artifact) ==
    [p \in DOMAIN fs \cup {path} |-> IF p = path THEN artifact ELSE fs[p]]

----------------------------------------------------------------------------
(* main.py: main() *)

EXT_TXT == <<".","t","x","t">>
EXT_DOC == <<".","d","o","c">>
EXT_DOCX == <<".","d","o","c","x">>
DEFAULT_TXT == <<"c","o","v","e","r","L","e","t","t","e","r",".","t","x","t">>
DEFAULT_PDF == <<"c","o","v","e","r","L","e","t","t","e","r",".","p","d","f">>
DEFAULT_DOCX == <<"c","o","v","e","r","L","e","t","t","e","r",".","d","o","c","x">>
kb_path == <<"k","n","o","w","l","e","d","g","e","B","a","s","e",".","t","x","t">>
COVERLETTERS == <<"c","o","v","e","r","l","e","t","t","e","r","s">>

\* a local of main() that is not bound yet
Unbound == <<"<unbound>">>

\* datetime.now().strftime("%Y%m%d_%H%M%S"), the clock's value in this run
Timestamp == <<"20250101_120000">>

\* create_timestamped_directory()
create_timestamped_directory ==
    path_join(COVERLETTERS, <<"c","o","v","e","r","_","l","e","t","t","e","r","_">> \o Timestamp)

\* the three destinations of main()
txt_filename(dir, output) ==
    IF output # <<>> THEN path_join(dir, output) ELSE path_join(dir, DEFAULT_TXT)

pdf_filename(dir, output) ==
    IF output # <<>>
    THEN path_join(dir, replace(replace(output, EXT_TXT, EXT_PDF), EXT_DOC, EXT_PDF))
    ELSE path_join(dir, DEFAULT_PDF)

pages_filename(dir, output) ==
    IF output # <<>>
    THEN path_join(dir, replace(replace(output, EXT_TXT, EXT_DOCX), EXT_PDF, EXT_DOCX))
    ELSE path_join(dir, DEFAULT_DOCX)

\* the order of the statements of main() from the letter on
following_pdf_first(step) ==
    CASE step = "complete" -> "pdf" [] step = "pdf" -> "txt"
      [] step = "txt" -> "pages" [] OTHER -> "done"
following(step) ==
    CASE step = "complete" -> "txt" [] step = "txt" -> "pdf"
      [] step = "pdf" -> "pages" [] OTHER -> "done"

Attempt(fmt, ok, path) == [fmt |-> fmt, ok |-> ok, path |-> path]

\* except Exception as e: print(f"Error: {e}", file=sys.stderr); sys.exit(1)
Exit(msg) ==
    /\ pc' = "exit"
    /\ stderr' = <<"Error: ">> \o msg
    /\ exit_code' = 1

\* generator = CoverLetterGenerator()
Construct ==
    /\ pc = "construct"
    /\ IF env.api_key
       THEN pc' = "mkdir" /\ UNCHANGED <<stderr, exit_code>>
       ELSE Exit(<<"OPENAI_API_KEY not found in environment variables. Please set it in your .env file.">>)
    /\ UNCHANGED <<args, disk, env, response, output_dir, effective_resume, resume_text,
                   job_desc_text, cover_letter, files, attempts, opens>>

\* output_dir = create_timestamped_directory()
MakeDir ==
    /\ pc = "mkdir"
    /\ IF env.dir_ok
       THEN /\ output_dir' = create_timestamped_directory
            /\ pc' = "resume"
            /\ UNCHANGED <<stderr, exit_code>>
       ELSE /\ Exit(PermissionDenied(COVERLETTERS))
            /\ UNCHANGED output_dir
    /\ UNCHANGED <<args, disk, env, response, effective_resume, resume_text,
                   job_desc_text, cover_letter, files, attempts, opens>>

\* if args.use_knowledge_base: ... else: effective_resume = args.resume
ResolveResume ==
    /\ pc = "resume"
    /\ IF args.use_knowledge_base
       THEN IF isfile(disk, kb_path)
            THEN /\ effective_resume' = kb_path
                 /\ pc' = "read_resume"
                 /\ UNCHANGED <<stderr, exit_code>>
            ELSE /\ Exit(<<"Knowledge base file not found: ">> \o kb_path)
                 /\ UNCHANGED effective_resume
       ELSE /\ effective_resume' = args.resume
            /\ pc' = "read_resume"
            /\ UNCHANGED <<stderr, exit_code>>
    /\ UNCHANGED <<args, disk, env, response, output_dir, resume_text,
                   job_desc_text, cover_letter, files, attempts, opens>>

\* generate_with_ai: resume_text = self._read_file_or_text(resume)
ReadResume ==
    /\ pc = "read_resume"
    /\ LET r == read_file_or_text(disk, effective_resume)
       IN  /\ opens' = Append(opens, [path |-> effective_resume, how |-> r.how])
           /\ IF r.ok
              THEN /\ resume_text' = r.value
                   /\ pc' = "read_job"
                   /\ UNCHANGED <<stderr, exit_code>>
              ELSE /\ Exit(r.value)
                   /\ UNCHANGED resume_text
    /\ UNCHANGED <<args, disk, env, response, output_dir, effective_resume,
                   job_desc_text, cover_letter, files, attempts>>

\* generate_with_ai: job_desc_text = self._read_file_or_text(job_description)
ReadJobDescription ==
    /\ pc = "read_job"
    /\ LET r == read_file_or_text(disk, args.job_description)
       IN  /\ opens' = Append(opens, [path |-> args.job_description, how |-> r.how])
           /\ IF r.ok
              THEN /\ job_desc_text' = r.value
                   /\ pc' = "complete"
                   /\ UNCHANGED <<stderr, exit_code>>
              ELSE /\ Exit(r.value)
                   /\ UNCHANGED job_desc_text
    /\ UNCHANGED <<args, disk, env, response, output_dir, effective_resume,
                   resume_text, cover_letter, files, attempts>>

\* generate_with_ai: the completion call and response...content.strip()
Complete ==
    /\ pc = "complete"
    /\ IF env.api_ok
       THEN /\ cover_letter' = strip(response)
            /\ pc' = following("complete")
            /\ UNCHANGED <<stderr, exit_code>>
       ELSE /\ Exit(<<"Error generating cover letter with OpenAI: ">> \o <<"Connection error.">>)
            /\ UNCHANGED cover_letter
    /\ UNCHANGED <<args, disk, env, response, output_dir, effective_resume, resume_text,
                   job_desc_text, files, attempts, opens>>

\* with open(txt_filename, 'w') as f: f.write(cover_letter)
WriteTxt ==
    /\ pc = "txt"
    /\ LET path == txt_filename(output_dir, args.output)
       IN  IF env.txt_ok
           THEN /\ files' = Write(files, path, TxtArtifact(cover_letter))
                /\ attempts' = Append(attempts, Attempt("txt", TRUE, path))
                /\ pc' = following("txt")
                /\ UNCHANGED <<stderr, exit_code>>
           ELSE /\ attempts' = Append(attempts, Attempt("txt", FALSE, path))
                /\ Exit(PermissionDenied(path))
                /\ UNCHANGED files
    /\ UNCHANGED <<args, disk, env, response, output_dir, effective_resume, resume_text,
                   job_desc_text, cover_letter, opens>>

\* if not args.no_pdf: create_pdf_cover_letter(cover_letter, pdf_filename)
GeneratePdf ==
    /\ pc = "pdf"
    /\ LET path == pdf_filename(output_dir, args.output)
       IN  IF args.no_pdf
           THEN UNCHANGED <<files, attempts>>
           ELSE IF env.pdf_ok
                THEN /\ files' = Write(files, path, PdfArtifact(cover_letter))
                     /\ attempts' = Append(attempts, Attempt("pdf", TRUE, path))
                ELSE /\ attempts' = Append(attempts, Attempt("pdf", FALSE, path))
                     /\ UNCHANGED files
    /\ pc' = following("pdf")
    /\ UNCHANGED <<args, disk, env, response, output_dir, effective_resume, resume_text,
                   job_desc_text, cover_letter, opens, stderr, exit_code>>

\* create_pages_document(cover_letter, pages_filename), then main() returns
GeneratePages ==
    /\ pc = "pages"
    /\ LET path == pages_filename(output_dir, args.output)
       IN  IF env.docx_ok
           THEN /\ files' = Write(files, path, DocxArtifact(cover_letter))
                /\ attempts' = Append(attempts, Attempt("docx", TRUE, path))
           ELSE /\ attempts' = Append(attempts, Attempt("docx", FALSE, path))
                /\ UNCHANGED files
    /\ pc' = following("pages")
    /\ exit_code' = 0
    /\ UNCHANGED <<args, disk, env, response, output_dir, effective_resume, resume_text,
                   job_desc_text, cover_letter, opens, stderr>>

Next ==
    \/ Construct
    \/ MakeDir
    \/ ResolveResume
    \/ ReadResume
    \/ ReadJobDescription
    \/ Complete
    \/ WriteTxt
    \/ GeneratePdf
    \/ GeneratePages

----------------------------------------------------------------------------
(* The runs checked *)

r_pdf == <<"r",".","p","d","f">>
r_PDF == <<"r",".","P","D","F">>
j_txt == <<"j",".","t","x","t">>
rpdf == <<"r","p","d","f">>
DearTeam == <<"D","e","a","r"," ","t","e","a","m">>

o_plain == <<"l","e","t","t","e","r">>
o_txt == <<"l","e","t","t","e","r",".","t","x","t">>
o_pdf == <<"l","e","t","t","e","r",".","p","d","f">>
o_doc == <<"l","e","t","t","e","r",".","d","o","c">>
o_docx == <<"l","e","t","t","e","r",".","d","o","c","x">>
o_md == <<"l","e","t","t","e","r",".","m","d">>

ExampleLetter == <<"H","e","l","l","o"," ","t","h","e","r","e",".","\n","\n","S","e","c","o","n","d"," ","p","a","r","a",".","\n","\n","E","m","a","i","l",":"," ","x","@","y",".","c","o","m","\n","P","h","o","n","e",":"," ","1","2","3">>

\* --output values: none, no extension, each extension the claims name, an unrelated one
Outputs == {<<>>, o_plain, o_txt, o_pdf, o_doc, o_docx, o_md}

Paths == {r_pdf, r_PDF, j_txt, rpdf, kb_path}
Inputs == {r_pdf, r_PDF, j_txt, rpdf, DearTeam}

AllOk == [api_key |-> TRUE, dir_ok |-> TRUE, api_ok |-> TRUE,
          txt_ok |-> TRUE, pdf_ok |-> TRUE, docx_ok |-> TRUE]
Envs == [api_key : BOOLEAN, dir_ok : BOOLEAN, api_ok : BOOLEAN,
         txt_ok : BOOLEAN, pdf_ok : BOOLEAN, docx_ok : BOOLEAN]

PlainDisk == [p \in Paths |-> IF p = j_txt THEN "text" ELSE "absent"]
Disks == {d \in [Paths -> FileStates] : d[kb_path] \in {"absent", "text"}}

\* the pieces letters are made of, and how many of them
MaxPieces == 4
Pieces == { <<"a">>, <<" ">>, <<"\n">>, <<"\n","\n">>,
            <<"E","m","a","i","l",":">>,
            <<"W","e","b","s","i","t","e",":">>,
            <<"E","m","a","i","l",":"," ","a","\n","P","H","O","N","E",":"," ","1">> }
Letters ==
    {concat(ps) : ps \in UNION {[1..k -> Pieces] : k \in 0..MaxPieces}} \cup {ExampleLetter}

Start ==
    /\ pc = "construct"
    /\ output_dir = Unbound
    /\ effective_resume = Unbound
    /\ resume_text = Unbound
    /\ job_desc_text = Unbound
    /\ cover_letter = Unbound
    /\ files = << >>
    /\ attempts = << >>
    /\ opens = << >>
    /\ stderr = << >>
    /\ exit_code = 0

\* runs over the command line and the environment
Init ==
    /\ Start
    /\ args \in [output : Outputs, no_pdf : BOOLEAN, resume : {DearTeam},
                 job_description : {j_txt}, use_knowledge_base : {FALSE}]
    /\ disk = PlainDisk
    /\ env \in Envs
    /\ response \in {<<>>, ExampleLetter, <<" ","a","\n","\n","\n","b","\n">>}

\* runs over the inputs of the reader
InitRead ==
    /\ Start
    /\ args \in [output : {<<>>}, no_pdf : {FALSE}, resume : Inputs,
                 job_description : Inputs, use_knowledge_base : BOOLEAN]
    /\ disk \in Disks
    /\ env = AllOk
    /\ response = ExampleLetter

\* runs over the letter text
InitLetter ==
    /\ Start
    /\ args = [output |-> <<>>, no_pdf |-> FALSE, resume |-> DearTeam,
               job_description |-> j_txt, use_knowledge_base |-> FALSE]
    /\ disk = PlainDisk
    /\ env = AllOk
    /\ response \in Letters

Spec == Init /\ [][Next]_vars
SpecRead == InitRead /\ [][Next]_vars
SpecLetter == InitLetter /\ [][Next]_vars

----------------------------------------------------------------------------
(* Properties of a run over the command line and the environment (Spec) *)

RunEnded == pc \in {"done", "exit"}

\* the formats this run is asked for
Requested == {"txt", "docx"} \cup (IF args.no_pdf THEN {} ELSE {"pdf"})

\* whether the environment lets the renderer of format f succeed
Healthy(f) ==
    CASE f = "txt" -> env.txt_ok [] f = "pdf" -> env.pdf_ok [] OTHER -> env.docx_ok

\* the formats attempted so far, in order
AttemptedFormats == [i \in 1..Len(attempts) |-> attempts[i].fmt]

\* C1: failure isolation.  In a run that obtained the letter, every requested
\* format has been attempted when the run ends, with a failed result for an
\* unhealthy renderer, and the artifact of every healthy renderer exists,
\* whichever sibling failed.  (Stated for the default output name, where the
\* three destinations are distinct.)
C1_FailureIsolation ==
    (RunEnded /\ cover_letter # Unbound /\ args.output = <<>>) =>
        \A f \in Requested :
            /\ \E i \in 1..Len(attempts) :
                   attempts[i].fmt = f /\ attempts[i].ok = Healthy(f)
            /\ Healthy(f) => \E p \in DOMAIN files : files[p].fmt = f

\* the order in which the requested formats are to be attempted
RenderOrder ==
    <<"txt">> \o (IF args.no_pdf THEN <<>> ELSE <<"pdf">>) \o <<"docx">>

Stem(name) ==
    LET dots == {i \in 2..Len(name) : name[i] = "."}
    IN  IF dots = {} THEN name
        ELSE SubSeq(name, 1, (CHOOSE i \in dots : \A j \in dots : j <= i) - 1)

CanonicalExtension(f) ==
    CASE f = "txt" -> EXT_TXT [] f = "pdf" -> EXT_PDF [] OTHER -> EXT_DOCX

\* C3: destination resolution.  Every destination used is the output
\* directory joined with the base name stripped of its extension and
\* followed by the canonical extension of the format.
C3_DestinationResolution ==
    \A i \in 1..Len(attempts) :
        attempts[i].path =
            path_join(output_dir,
                      Stem(IF args.output # <<>> THEN args.output ELSE DEFAULT_TXT)
                          \o CanonicalExtension(attempts[i].fmt))

----------------------------------------------------------------------------
(* Properties of the reader (SpecRead) *)

\* the inputs read so far, with what the read returned
ReadsDone ==
    (IF resume_text # Unbound THEN {<<effective_resume, resume_text>>} ELSE {})
        \cup (IF job_desc_text # Unbound
              THEN {<<args.job_description, job_desc_text>>} ELSE {})

\* the input whose read ended the run, if a read did
FailedRead ==
    IF pc = "exit" /\ effective_resume # Unbound
    THEN IF resume_text = Unbound THEN {effective_resume} ELSE {args.job_description}
    ELSE {}

\* C5: path versus literal.  An input that is not an existing file is
\* returned unchanged, with no file opened and no error; a file is opened
\* only for an existing file, as a PDF exactly when its name ends in .pdf in
\* any letter case and as UTF-8 text otherwise.
C5_PathVersusLiteral ==
    /\ \A rd \in ReadsDone : ~isfile(disk, rd[1]) => rd[2] = rd[1]
    /\ \A p \in FailedRead : isfile(disk, p)
    /\ \A i \in 1..Len(opens) :
           LET o == opens[i]
           IN  /\ (o.how # "none") <=> isfile(disk, o.path)
               /\ (o.how = "pdf") <=>
                      (isfile(disk, o.path) /\ endswith(lower(o.path), EXT_PDF))
    /\ \A rd \in ReadsDone :
           isfile(disk, rd[1]) =>
               rd[2] = (IF endswith(lower(rd[1]), EXT_PDF)
                        THEN strip(extract_pages(PdfPages)) ELSE TextContent)

\* r.PDF exists and was read as a PDF, rpdf exists and was read as text, or a
\* literal was passed through
C5_Witness ==
    /\ pc = "done"
    /\ effective_resume = r_PDF
    /\ disk[r_PDF] = "pdf"
    /\ resume_text = strip(extract_pages(PdfPages))
    /\ opens[1].how = "pdf"
    /\ args.job_description = DearTeam
    /\ job_desc_text = DearTeam
    /\ opens[2].how = "none"

\* an existing path that cannot be opened, decoded or parsed, and why
Unreadable(path) ==
    /\ isfile(disk, path)
    /\ \/ disk[path] = "locked"
       \/ disk[path] = "text" /\ endswith(lower(path), EXT_PDF)
       \/ disk[path] = "pdf" /\ ~endswith(lower(path), EXT_PDF)

Cause(path) ==
    CASE disk[path] = "locked" -> PermissionDenied(path)
      [] disk[path] = "text"   -> PdfReadError
      [] OTHER                 -> DecodeError

\* C6: a source read failure is fatal and carries the path.  The run does not
\* get past the read of an unreadable input; the read that ended the run left
\* exit status 1 and a message holding the offending path and the cause, and
\* no artifact has been attempted or written.
C6_SourceReadFailureFatal ==
    /\ (resume_text # Unbound) => ~Unreadable(effective_resume)
    /\ (job_desc_text # Unbound) => ~Unreadable(args.job_description)
    /\ (pc \notin {"construct", "mkdir", "resume", "read_resume"}
            /\ effective_resume # Unbound /\ Unreadable(effective_resume))
           => pc = "exit"
    /\ \A p \in FailedRead :
           /\ Unreadable(p)
           /\ exit_code = 1
           /\ contains(stderr, p)
           /\ contains(stderr, Cause(p))
           /\ files = <<>>
           /\ attempts = <<>>

\* the job description is a PDF file named j.txt: the UTF-8 read fails
C6_Witness ==
    /\ pc = "exit"
    /\ resume_text # Unbound
    /\ args.job_description = j_txt
    /\ disk[j_txt] = "pdf"
    /\ contains(stderr, j_txt)

----------------------------------------------------------------------------
(* Properties of the artifacts over the letter text (SpecLetter) *)

\* the labels that mark a contact line
ContactLabels == {KW_EMAIL, KW_PHONE, KW_LINKEDIN, <<"w","e","b","s","i","t","e",":">>}

\* text cut at every run of two or more newlines
RECURSIVE CutAtBlankLines(_)
CutAtBlankLines(text) ==
    LET starts == {i \in 1..(Len(text) - 1) : text[i] = "\n" /\ text[i + 1] = "\n"}
    IN  IF starts = {} THEN <<text>>
        ELSE LET i == CHOOSE k \in starts : \A j \in starts : k <= j
                 after == {k \in (i + 2)..Len(text) : text[k] # "\n"}
                 rest == IF after = {} THEN <<>>
                         ELSE From(text, CHOOSE k \in after : \A j \in after : k <= j)
             IN  <<SubSeq(text, 1, i - 1)>> \o CutAtBlankLines(rest)

NonEmpty(s) == s # <<>>
Trimmed(seq) == [i \in 1..Len(seq) |-> strip(seq[i])]

\* the nonempty groups of a text, trimmed, in order
Groups(text) == SelectSeq(Trimmed(CutAtBlankLines(text)), NonEmpty)

\* the lines of a group
LinesOf(group) == split(group, NL)

LabelAtStart(line) == \E label \in ContactLabels : startswith(lower(line), label)

\* a line that starts with a label, whether or not blanks before it count
IsLabelLine(line) == LabelAtStart(strip(line))

\* no line of the text has blanks before a label, so that "starts with" is
\* read the same way with and without trimming the line
LabelsUnindented(text) ==
    \A i \in 1..Len(Groups(text)) :
        \A k \in 1..Len(LinesOf(Groups(text)[i])) :
            LET line == LinesOf(Groups(text)[i])[k]
            IN  IsLabelLine(line) => LabelAtStart(line)

\* the contact heuristic: an internal newline and a line starting with a label
MatchesContact(group) ==
    /\ contains(group, NL)
    /\ \E k \in 1..Len(LinesOf(group)) : IsLabelLine(LinesOf(group)[k])

HasLabelLine(text) ==
    \E i \in 1..Len(Groups(text)) :
        \E k \in 1..Len(LinesOf(Groups(text)[i])) : IsLabelLine(LinesOf(Groups(text)[i])[k])

\* the trimmed nonempty lines of a contact block
ContactLines(group) == SelectSeq(Trimmed(LinesOf(group)), NonEmpty)

\* how the paginated document shows a paragraph block and a contact block
AsParagraph(group) == <<Paragraph(group, "CustomBody"), Spacer(BodySpacer)>>
AsContactBlock(group) ==
    concat([k \in 1..Len(ContactLines(group)) |->
               <<Paragraph(ContactLines(group)[k], "CustomBody"), Spacer(ContactSpacer)>>])

\* the artifacts of a completed run with the default output name
TxtFile == files[txt_filename(output_dir, args.output)]
PdfFile == files[pdf_filename(output_dir, args.output)]
DocxFile == files[pages_filename(output_dir, args.output)]

TitleOfStory == <<Paragraph(TITLE, "CustomTitle"), Spacer(TitleSpacer)>>
TitleOfDocx == <<DocxParagraph(TITLE, "CENTER"), DocxParagraph(<<>>, "")>>

\* what follows the title in the paginated and the word-processor artifact
PdfBody == SubSeq(PdfFile.story, 3, Len(PdfFile.story))
DocxBody == SubSeq(DocxFile.paragraphs, 3, Len(DocxFile.paragraphs))

\* the plain text of a letter: title line, then each block after one blank
\* line, a contact block as one line per entry
BlockText(group) ==
    IF MatchesContact(group)
    THEN concat([k \in 1..Len(ContactLines(group)) |->
                    (IF k = 1 THEN <<>> ELSE NL) \o ContactLines(group)[k]])
    ELSE group
TitledPlainText(text) ==
    TITLE \o concat([i \in 1..Len(Groups(text)) |-> NLNL \o BlockText(Groups(text)[i])])

\* C4 as claimed: the plain-text artifact is the title line "Cover Letter",
\* then the paragraphs separated by one blank line, then the contact block.
C4_PlainTextTitled ==
    pc = "done" => TxtFile.text = TitledPlainText(cover_letter)

\* C4 as amended: the plain-text artifact is the letter text as generated,
\* with no title line; for the letter of the example it is exactly
\* "Hello there.\n\nSecond para.\n\nEmail: x@y.com\nPhone: 123".
C4_PlainTextVerbatim ==
    pc = "done" =>
        /\ TxtFile.fmt = "txt"
        /\ TxtFile.text = cover_letter
        /\ response = ExampleLetter => TxtFile.text = ExampleLetter

C4_Witness ==
    pc = "done" /\ response = ExampleLetter /\ TxtFile.text = ExampleLetter

\* C7: paragraph segmentation.  For a letter with no contact-label line, the
\* paginated and the word-processor artifact hold, after the title, exactly
\* one paragraph block per nonempty group, in order, each the trimmed group,
\* and nothing in contact-block form.
C7_ParagraphSegmentation ==
    (pc = "done" /\ ~HasLabelLine(cover_letter)) =>
        /\ PdfBody = concat([i \in 1..Len(Groups(cover_letter)) |->
                                AsParagraph(Groups(cover_letter)[i])])
        /\ DocxBody = [i \in 1..Len(Groups(cover_letter)) |->
                          DocxParagraph(Groups(cover_letter)[i], "JUSTIFY")]

\* C8: contact-block recognition.  In a letter where at most one group
\* matches, a group is shown as a contact block (its trimmed nonempty lines,
\* in order) if and only if it has an internal newline and a line that starts
\* with email:, phone:, linkedin: or website: in any letter case; every other
\* group is an ordinary paragraph.
C8_ContactRecognition ==
    (/\ pc = "done"
     /\ LabelsUnindented(cover_letter)
     /\ Cardinality({i \in 1..Len(Groups(cover_letter)) :
                        MatchesContact(Groups(cover_letter)[i])}) <= 1) =>
        PdfBody = concat([i \in 1..Len(Groups(cover_letter)) |->
                             IF MatchesContact(Groups(cover_letter)[i])
                             THEN AsContactBlock(Groups(cover_letter)[i])
                             ELSE AsParagraph(Groups(cover_letter)[i])])

\* C9: single contact block.  A group that matches the contact heuristic
\* after an earlier group that matches it is shown as an ordinary paragraph,
\* with full body spacing.
C9_SingleContactBlock ==
    pc = "done" =>
        \A i \in 1..Len(Groups(cover_letter)) :
            (/\ MatchesContact(Groups(cover_letter)[i])
             /\ \E j \in 1..(i - 1) : MatchesContact(Groups(cover_letter)[j])) =>
                \E k \in 1..(Len(PdfBody) - 1) :
                    /\ PdfBody[k] = Paragraph(Groups(cover_letter)[i], "CustomBody")
                    /\ PdfBody[k + 1] = Spacer(BodySpacer)

AllSucceeded ==
    /\ Len(attempts) = 3
    /\ \A i \in 1..3 : attempts[i].ok

\* C10 as claimed: for an empty letter every format is rendered, succeeds,
\* and holds the title and no body block.
C10_EmptyLetterTitled ==
    (pc = "done" /\ cover_letter = <<>>) =>
        /\ AllSucceeded
        /\ TxtFile.text = TITLE
        /\ PdfFile.story = TitleOfStory
        /\ DocxFile.paragraphs = TitleOfDocx

\* C10 as amended: for an empty letter every format is rendered and, with its
\* backend available, succeeds; the paginated and the word-processor artifact
\* hold the title and no body block, the plain-text artifact is empty.
C10_EmptyLetter ==
    (pc = "done" /\ cover_letter = <<>>) =>
        /\ AllSucceeded
        /\ TxtFile.text = <<>>
        /\ PdfFile.story = TitleOfStory
        /\ DocxFile.paragraphs = TitleOfDocx

\* a whitespace-only response rendered
C10_Witness ==
    /\ pc = "done"
    /\ response # <<>>
    /\ cover_letter = <<>>
    /\ PdfFile.story = TitleOfStory

----------------------------------------------------------------------------
(* Properties of the destinations of one run (Spec) *)

\* C11: no artifact overwrites another.  The destinations used in one run
\* are pairwise distinct, and the file at the destination of every
\* successful attempt still holds the artifact of that attempt's format.
C11_NoOverwrite ==
    /\ \A i, j \in 1..Len(attempts) : i # j => attempts[i].path # attempts[j].path
    /\ \A i \in 1..Len(attempts) :
           attempts[i].ok =>
               /\ attempts[i].path \in DOMAIN files
               /\ files[attempts[i].path].fmt = attempts[i].fmt

====
